---- MODULE Spec2Model ----
(***************************************************************************)
(* The search orchestration of palindrome-web: the useSearch hook          *)
(* (src/lib/useSearch.ts) driving the API client (lib/api.ts, kept in      *)
(* src/unnamed/part_014), under React's render/effect cycle.               *)
(*                                                                         *)
(* Time is counted in ticks.  A timer set for n ticks is due when its      *)
(* countdown reaches 0; time does not advance past a due timer.            *)
(*                                                                         *)
(* Specifications:                                                         *)
(*   Spec            the hook and the API client                           *)
(*   SpecApi         the API client called directly                        *)
(*   SpecEnrich      applyPalindromeProcessing on response bodies          *)
(*   SpecPalindrome  isPalindrome on strings                               *)
(*   SpecUrl         the URL searchProducts builds                         *)
(*   SpecPagination  the usePagination hook (src/lib/usePagination.ts)     *)
(***************************************************************************)
EXTENDS Integers, Sequences, FiniteSets, TLC

\* ------------------------------------------------------------------ bounds
\* API calls that have not settled, at any one time
MaxRequests == 2
\* user actions (setQ, search, reset, clear) modelled in one run
MaxUserActions == 3
\* debounceMs (default 400 ms), in ticks
DebounceTicks == 2
\* API_CONFIG.timeout (10000 ms), in ticks
TimeoutTicks == 3
\* the longest query searchProducts takes (255 characters), scaled down
MaxQueryLength == 2
\* items in the body of a response handed to applyPalindromeProcessing
MaxItems == 1

\* the largest totalItems handed to usePagination
MaxTotalItems == 3
\* the largest itemsPerPage handed to usePagination
MaxItemsPerPage == 2
\* operations of usePagination called between two renders
MaxCallsPerRender == 2

\* ------------------------------------------------------------------ strings
\* Query strings are sequences of characters.
Queries == { <<>>, <<" ">>, <<"a">> }

RECURSIVE TrimStart(_)
\* String.prototype.trimStart on a sequence of characters
TrimStart(s) ==
    IF s # <<>> /\ Head(s) = " " THEN TrimStart(Tail(s)) ELSE s

RECURSIVE TrimEnd(_)
\* String.prototype.trimEnd on a sequence of characters
TrimEnd(s) ==
    IF s # <<>> /\ s[Len(s)] = " " THEN TrimEnd(SubSeq(s, 1, Len(s) - 1)) ELSE s

\* query.trim()
Trim(s) == TrimEnd(TrimStart(s))

\* a string of n characters c
Repeat(n, c) == [i \in 1..n |-> c]

\* The queries a caller other than the hook hands to the client: those of
\* the hook, the longest query allowed, one character more, a short query
\* followed by enough spaces to pass the limit, and a query that is no
\* palindrome.
ClientQueries ==
    Queries \cup { Repeat(MaxQueryLength, "a"),
                   Repeat(MaxQueryLength + 1, "a"),
                   <<"a">> \o Repeat(MaxQueryLength, " "),
                   << "a", "b" >> }

\* ------------------------------------------------------------------ state
VARIABLES
    env,                 \* process.env and the hook's parameters, fixed for a run
    q,                   \* useState q
    data,                \* useState data ("null" or a response)
    status,              \* useState status
    error,               \* useState error
    inFlightController,  \* useRef: index into requests of the current controller, 0 = null
    debounceTimeoutRef,  \* useRef: the pending debounce timer, or NoTimer
    requests,            \* every API call made so far, with its controller and its progress
    mounted,             \* the first render's effects have run
    rendered,            \* <<q, status>> of the last render whose effects have run
    sinceSetQ,           \* ticks elapsed since the last setQ call (capped at DebounceTicks)
    burstExec,           \* executeSearch calls caused by setQ in the current burst of setQ calls
    afterClear,          \* the clear action ran and no user action has followed it
    userActions,         \* user actions taken so far
    currentPage,         \* usePagination: useState currentPage
    itemsPerPage,        \* usePagination: useState itemsPerPage
    totalItems,          \* usePagination: useState totalItems
    closure,             \* usePagination: the state its last render saw, which the
                         \* callbacks of that render read
    callsInRender        \* usePagination: operations called since the last render

vars == << env, q, data, status, error, inFlightController, debounceTimeoutRef,
           requests, mounted, rendered, sinceSetQ, burstExec, afterClear,
           userActions, currentPage, itemsPerPage, totalItems, closure,
           callsInRender >>

paginationVars == << currentPage, itemsPerPage, totalItems, closure, callsInRender >>

hookVars == << q, data, status, error, inFlightController, debounceTimeoutRef,
               mounted, rendered, sinceSetQ, burstExec, afterClear, userActions >>

searchVars == << env, requests, hookVars >>

NoTimer == [left |-> -1, query |-> <<>>, origin |-> "none"]

\* ------------------------------------------------------------------ products
\* A ProductItem keeps the fields enrichment reads or writes:
\*   discountPercentage  << >> when undefined, << n >> when the number n
\*   imageUrl            << >> when undefined or empty, otherwise the URL
\* Prices are even integers, so that x * 0.5 is the integer x \div 2.
Item(id, originalPrice, finalPrice, discountPercentage, imageUrl) ==
    [id |-> id, originalPrice |-> originalPrice, finalPrice |-> finalPrice,
     discountPercentage |-> discountPercentage, imageUrl |-> imageUrl]

\* `https://picsum.photos/400/300?random=${id}`
Placeholder(id) == << "https://picsum.photos/400/300?random=", id >>

\* an image URL the backend gave for item id
BackendImage(id) == << "https://backend/image/", id >>

\* item.imageUrl || placeholder
EnsureImage(item) ==
    [item EXCEPT !.imageUrl = IF item.imageUrl # << >> THEN item.imageUrl
                              ELSE Placeholder(item.id)]

\* a test that finds a discount on every item
HasDiscountAlways(item) == TRUE

\* const hasDiscount = item.discountPercentage !== undefined && item.finalPrice < item.originalPrice
HasDiscount(item) ==
    item.discountPercentage # << >> /\ item.finalPrice < item.originalPrice

\* a cut taken from the current price
DiscountedPriceCompounds(item) == item.finalPrice \div 2

\* item.originalPrice * 0.5
DiscountedPrice(item) == item.originalPrice \div 2

\* the map callback of applyPalindromeProcessing for a palindrome response
EnrichItem(item) ==
    IF ~HasDiscount(item)
    THEN EnsureImage([item EXCEPT !.finalPrice = DiscountedPrice(item),
                                  !.discountPercentage = << 50 >>])
    ELSE EnsureImage(item)

\* applyPalindromeProcessing(response)
ApplyPalindromeProcessing(response) ==
    [response EXCEPT !.items =
        [k \in DOMAIN response.items |->
            IF response.isPalindrome
            THEN EnrichItem(response.items[k])
            ELSE EnsureImage(response.items[k])]]

\* str.toLowerCase(), on the letters the model uses
ToLowerCase(c) == CASE c = "A" -> "a" [] c = "B" -> "b" [] OTHER -> c

\* the characters /[^a-z0-9]/ keeps, among those the model uses
IsAlphanumeric(c) == c \in { "a", "b", "0", "1" }

RECURSIVE Reverse(_)
\* split('').reverse().join('')
Reverse(s) == IF s = << >> THEN << >> ELSE Append(Reverse(Tail(s)), Head(s))

\* str.toLowerCase().replace(/[^a-z0-9]/g, '')
Cleaned(s) == SelectSeq([i \in DOMAIN s |-> ToLowerCase(s[i])], IsAlphanumeric)

\* a test that compares the string as typed with its reverse
IsPalindromeRaw(s) == s = Reverse(s)

\* isPalindrome(str)
IsPalindrome(s) == Cleaned(s) = Reverse(Cleaned(s))

\* MOCK_PRODUCTS
MOCK_PRODUCTS ==
    << Item(1, 3000, 1500, << 50 >>, Placeholder(1)),
       Item(2, 2500, 1250, << 50 >>, Placeholder(2)),
       Item(3, 500, 250, << 50 >>, Placeholder(3)) >>

\* The filter of MOCK_PRODUCTS by query.trim().toLowerCase(): every product
\* has an "a" in its title, the second has "ab" in its description
\* ("durabilidad"), and none has "aa" or a longer run of the model's
\* characters in its title, brand or description.
MockMatches(query) ==
    LET queryLower == [i \in DOMAIN Trim(query) |-> ToLowerCase(Trim(query)[i])]
    IN  CASE queryLower = << "a" >>      -> MOCK_PRODUCTS
          [] queryLower = << "a", "b" >> -> << MOCK_PRODUCTS[2] >>
          [] OTHER                       -> << >>

RECURSIVE ParseFloat(_)
\* parseFloat of a string of decimal digits
ParseFloat(digits) ==
    IF digits = << >> THEN 0
    ELSE 10 * ParseFloat(SubSeq(digits, 1, Len(digits) - 1))
         + (CASE digits[Len(digits)] = "0" -> 0 [] digits[Len(digits)] = "1" -> 1
              [] digits[Len(digits)] = "2" -> 2 [] digits[Len(digits)] = "3" -> 3
              [] digits[Len(digits)] = "4" -> 4 [] digits[Len(digits)] = "5" -> 5
              [] digits[Len(digits)] = "6" -> 6 [] digits[Len(digits)] = "7" -> 7
              [] digits[Len(digits)] = "8" -> 8 [] OTHER -> 9)

RECURSIVE NumberToString(_)
\* item.originalPrice.toString() of a natural number
NumberToString(n) ==
    IF n < 10
    THEN << CASE n = 0 -> "0" [] n = 1 -> "1" [] n = 2 -> "2" [] n = 3 -> "3"
              [] n = 4 -> "4" [] n = 5 -> "5" [] n = 6 -> "6" [] n = 7 -> "7"
              [] n = 8 -> "8" [] OTHER -> "9" >>
    ELSE NumberToString(n \div 10) \o NumberToString(n % 10)

\* a Product of the /api/products endpoint: its price is a string
Product(id, price, imageUrl) == [id |-> id, price |-> price, imageUrl |-> imageUrl]

\* convertProductToProductItem(product, isPalindrome)
ConvertProductToProductItem(product, isPalindrome) ==
    Item(product.id,
         ParseFloat(product.price),
         IF isPalindrome THEN ParseFloat(product.price) \div 2 ELSE ParseFloat(product.price),
         IF isPalindrome THEN << 50 >> ELSE << >>,
         IF product.imageUrl # << >> THEN product.imageUrl ELSE Placeholder(product.id))

\* fetchProducts without a base URL, in development: MOCK_PRODUCTS as Products
MockAsProducts ==
    [k \in DOMAIN MOCK_PRODUCTS |->
        Product(MOCK_PRODUCTS[k].id, NumberToString(MOCK_PRODUCTS[k].originalPrice),
                MOCK_PRODUCTS[k].imageUrl)]

\* The well-formed 2xx bodies of the backend carry one product, without a
\* discount and without an image.
BackendItems == << Item(1, 500, 500, << >>, << >>) >>

BackendProducts == << Product(1, << "5", "0", "0" >>, << >>) >>

\* ------------------------------------------------------------------ API client
\* new ApiClientError(message, statusCode, error)
ApiClientError(message, statusCode, err) ==
    [kind |-> "err", message |-> message, statusCode |-> statusCode, error |-> err]

\* a SearchResponse handed to the caller
\*   fixture:    built from MOCK_PRODUCTS
\*   validated:  passed isValidSearchResponse
\*   wellFormed: has the shape of a SearchResponse
Response(query, isPalindrome, items, fixture, validated, wellFormed) ==
    [kind |-> "ok", query |-> query, isPalindrome |-> isPalindrome, items |-> items,
     fixture |-> fixture, validated |-> validated, wellFormed |-> wellFormed]

\* the response searchProducts builds from MOCK_PRODUCTS for query
MockSearchResponse(query) ==
    ApplyPalindromeProcessing(
        Response(query, IsPalindrome(query), MockMatches(query), TRUE, FALSE, TRUE))

\* the response getAllProducts builds from the Products fetchProducts returned
AllProductsResponse(products, fixture) ==
    Response(<< >>, FALSE,
             [k \in DOMAIN products |-> ConvertProductToProductItem(products[k], FALSE)],
             fixture, FALSE, TRUE)

Pending == [kind |-> "none"]

\* What a fetch and the reading of its body can do:
\*   ok       a 2xx with a well-formed body
\*   invalid  a 2xx whose JSON is an object of the wrong shape
\*   null     a 2xx whose JSON is null
\*   h400, h404, h500, h503   a non-2xx status
\*   neterr   a network-layer TypeError whose message names fetch ("Failed to fetch")
\*   other    any other Error: a TypeError whose message does not name fetch
\*            ("Load failed"), the SyntaxError of a body that is not JSON
\*   abort    an AbortError
FetchEvents ==
    { "ok", "invalid", "null", "h400", "h404", "h500", "h503", "neterr", "other",
      "abort" }

\* the value of response.json() for a body that is null
NullBody == [kind |-> "null"]

\* the events that are a response with a non-2xx status
HttpErrors == { "h400", "h404", "h500", "h503" }

\* response.status
HttpStatus(ev) ==
    CASE ev = "h400" -> 400 [] ev = "h404" -> 404 [] ev = "h503" -> 503 [] OTHER -> 500

\* the term getAllProducts searches for when it falls back to the search endpoint
ProductTerm == << "product" >>

\* The state of one call of the API client:
\*   api      "all" (getAllProducts) or "search" (searchProducts)
\*   pc       the await the call is suspended at: "fetchProducts", "fallback",
\*            "search"; "microtask" when it settled without awaiting the network;
\*            "done" once the caller has been resumed
\*   aborted  the caller's AbortSignal is aborted
\*   timer    countdown of the pending setTimeout of this stage, -1 when none
\*   timedOut timeoutController.signal.aborted of this stage
\*            (timer and timedOut are tracked while the signal given to fetch is
\*            not aborted: once it is, every catch of the client returns the
\*            same error whatever the timer does)
\*   settledAborted  the caller's signal was aborted when the call settled
Request(api, query, hasSignal, pc, timer, result) ==
    [api |-> api, query |-> query, hasSignal |-> hasSignal, aborted |-> FALSE,
     pc |-> pc, timer |-> timer, timedOut |-> FALSE, result |-> result,
     settledAborted |-> FALSE]

ConfigError == ApiClientError("API base URL not configured", 500, "Configuration Error")

BadRequest == ApiClientError("Query parameter too long (max 255 characters)", 400, "Bad Request")

\* getAllProducts up to its first await
GetAllProductsCall(e, hasSignal) ==
    IF e.baseUrl
    THEN Request("all", <<>>, hasSignal, "fetchProducts", TimeoutTicks, Pending)
    ELSE IF e.dev
         THEN Request("all", <<>>, hasSignal, "microtask", -1,
                      AllProductsResponse(MockAsProducts, TRUE))
         ELSE Request("all", <<>>, hasSignal, "microtask", -1, ConfigError)

\* searchProducts up to its first await
SearchProductsCall(e, query, hasSignal) ==
    IF Trim(query) = <<>>
    THEN GetAllProductsCall(e, hasSignal)
    ELSE IF Len(query) > MaxQueryLength
    THEN Request("search", query, hasSignal, "microtask", -1, BadRequest)
    ELSE IF e.baseUrl
         THEN Request("search", query, hasSignal, "search", TimeoutTicks, Pending)
         ELSE IF e.dev
              THEN Request("search", query, hasSignal, "microtask", -1,
                           MockSearchResponse(query))
              ELSE Request("search", query, hasSignal, "microtask", -1, ConfigError)

\* const combinedSignal = signal || timeoutController.signal
CombinedSignalAborted(r) == IF r.hasSignal THEN r.aborted ELSE r.timedOut

\* A fetch rejects with an AbortError only when the signal it was given is
\* aborted.  Once that signal is aborted the fetch rejects with an AbortError,
\* unless a response raced the abort: a 2xx or an error status may still be
\* delivered.
LateEvents == { "ok", "h500", "abort" }

FetchCan(r, ev) ==
    IF CombinedSignalAborted(r) THEN ev \in LateEvents ELSE ev # "abort"

Settled(r, result) ==
    [r EXCEPT !.pc = "done", !.timer = -1, !.result = result,
              !.settledAborted = r.aborted]

\* the catch of searchProducts
SearchProductsCatch(e, r, ev) ==
    CASE ev = "abort"   -> ApiClientError("Request was cancelled", 0, "Request Cancelled")
      [] ev = "neterr"  -> IF e.dev
                           THEN MockSearchResponse(r.query)
                           ELSE ApiClientError("Network error - unable to connect to API",
                                               0, "Network Error")
      [] OTHER          -> ApiClientError("Request Error", 0, "Request Error")

\* searchProducts from the resolution of its fetch
SearchProductsFetched(e, r, ev) ==
    CASE ev = "ok"      -> ApplyPalindromeProcessing(
                               Response(Trim(r.query), IsPalindrome(Trim(r.query)),
                                        BackendItems, FALSE, TRUE, TRUE))
      [] ev \in {"invalid", "null"}
                        -> ApiClientError("Invalid response format from API", 500, "Parse Error")
      [] ev \in HttpErrors
                        -> ApiClientError("HTTP", HttpStatus(ev), "HTTP Error")
      [] OTHER          -> SearchProductsCatch(e, r, ev)

\* the inner catch of getAllProducts (the fallback request)
GetAllProductsFallbackCatch(r, ev) ==
    IF (r.hasSignal /\ r.aborted) \/ r.timedOut
    THEN ApiClientError("Request cancelled", 0, "Request Cancelled")
    ELSE CASE ev = "abort"  -> ApiClientError("Request timeout", 0, "Request Timeout")
           [] ev = "neterr" -> ApiClientError("Network error", 0, "Network Error")
           [] OTHER         -> ApiClientError("Unknown Error", 0, "Unknown Error")

\* getAllProducts from the resolution of the fallback fetch
GetAllProductsFallbackFetched(r, ev) ==
    CASE ev = "ok"      -> Response(ProductTerm, FALSE, BackendItems, FALSE, FALSE, TRUE)
      [] ev = "invalid" -> Response(ProductTerm, FALSE, BackendItems, FALSE, FALSE, FALSE)
      [] ev = "null"    -> NullBody
      [] ev \in HttpErrors
                        -> ApiClientError("HTTP", HttpStatus(ev), "HTTP Error")
      [] OTHER          -> GetAllProductsFallbackCatch(r, ev)

\* One step of an API call: its pending fetch resolves or rejects with ev.
\* fetchProducts failing in any way (an error of its own, or a body without
\* products, which makes productsResponse.products.map throw) sends
\* getAllProducts to the fallback request, with a new timer.
ApiOnFetch(e, r, ev) ==
    CASE r.pc = "search"   -> Settled(r, SearchProductsFetched(e, r, ev))
      [] r.pc = "fallback" -> Settled(r, GetAllProductsFallbackFetched(r, ev))
      [] r.pc = "fetchProducts" ->
            IF ev = "ok"
            THEN Settled(r, AllProductsResponse(BackendProducts, FALSE))
            ELSE [r EXCEPT !.pc = "fallback", !.timedOut = FALSE,
                           !.timer = IF r.hasSignal /\ r.aborted THEN -1 ELSE TimeoutTicks]
      [] OTHER -> r

\* the setTimeout callback: timeoutController.abort()
ApiOnTimeout(r) == [r EXCEPT !.timer = -1, !.timedOut = TRUE]

AwaitsFetch(r) == r.pc \in {"search", "fallback", "fetchProducts"}

\* ------------------------------------------------------------------ useSearch
NoData == [kind |-> "null"]

DefaultErrorMessage == "No se pudo completar la busqueda."

\* the catch of executeSearch for a request whose controller is not aborted:
\* the message shown, or swallow when the handler returns without touching state
ExecuteSearchCatch(err) ==
    CASE err.statusCode = 400 -> [swallow |-> FALSE, message |-> "Parametro de busqueda invalido."]
      [] err.statusCode = 404 -> [swallow |-> FALSE, message |-> "Servicio no encontrado."]
      [] err.statusCode = 500 -> [swallow |-> FALSE, message |-> "Error interno del servidor."]
      [] err.statusCode = 0 ->
            IF err.error = "Network Error"
            THEN [swallow |-> FALSE,
                  message |-> "Error de conexion. Verifica tu conexion a internet."]
            ELSE IF err.error = "Request Cancelled"
                 THEN [swallow |-> TRUE, message |-> ""]
                 ELSE [swallow |-> FALSE, message |-> "Error de conexion."]
      [] OTHER -> [swallow |-> FALSE,
                   message |-> IF err.message # "" THEN err.message ELSE DefaultErrorMessage]

\* a resolution that is applied whatever the controller says
AbortedAtResolveIgnored(r) == FALSE

\* controller.signal.aborted, read after the await when the call resolved
AbortedAtResolve(r) == r.aborted

\* a rejection that is handled whatever the controller says
AbortedAtCatchIgnored(r) == FALSE

\* controller.signal.aborted, read in the catch when the call rejected
AbortedAtCatch(r) == r.aborted

\* executeSearch from the settling of its API call r: the view it leaves
ExecuteSearchResume(r) ==
    IF r.result.kind # "err"
    THEN IF ~AbortedAtResolve(r)
         THEN /\ data' = r.result
              /\ status' = "success"
              /\ error' = ""
         ELSE UNCHANGED << data, status, error >>
    ELSE IF ~AbortedAtCatch(r) /\ ~ExecuteSearchCatch(r.result).swallow
         THEN /\ error' = ExecuteSearchCatch(r.result).message
              /\ status' = "error"
              /\ data' = NoData
         ELSE UNCHANGED << data, status, error >>

\* an abortInFlightRequest that drops the controller without aborting it
AbortInFlightRequestForgets(reqs, c) == reqs

\* abortInFlightRequest: the controller the ref holds is aborted
AbortInFlightRequest(reqs, c) ==
    IF c # 0
    THEN [reqs EXCEPT ![c].aborted = TRUE, ![c].timer = -1, ![c].timedOut = FALSE]
    ELSE reqs

\* A settled call leaves nothing behind: requests keeps the calls that have
\* not settled, and the calls that settled since the last executeSearch.  Of a
\* call that settled with its controller aborted it keeps only whether it
\* resolved or rejected.
Unsettled(r) == r.pc # "done"

Forget(reqs) == SelectSeq(reqs, Unsettled)

Resumed(r) ==
    IF r.pc = "done" /\ r.aborted
    THEN [r EXCEPT !.result = [kind |-> r.result.kind], !.timedOut = FALSE]
    ELSE r

\* a clearDebounceTimeout that leaves the timer running
ClearDebounceTimeoutKeeps(t) == t

\* clearDebounceTimeout
ClearDebounceTimeout(t) == NoTimer

\* the API call executeSearch makes for query
HookCall(query) ==
    IF Trim(query) = <<>>
    THEN GetAllProductsCall(env, TRUE)
    ELSE SearchProductsCall(env, Trim(query), TRUE)

\* executeSearch up to its await; cause says who called it
ExecuteSearch(query, cause) ==
    /\ Len(Forget(requests)) < MaxRequests
    /\ requests' = Append(Forget(AbortInFlightRequest(requests, inFlightController)),
                          HookCall(query))
    /\ inFlightController' = Len(Forget(requests)) + 1
    /\ status' = "loading"
    /\ error' = ""
    /\ burstExec' = IF cause \in {"setQ-effect", "debounce"}
                    THEN burstExec + 1 ELSE burstExec

NoExecuteSearch ==
    UNCHANGED << requests, inFlightController, status, error, burstExec >>

\* the condition of the initial-load effect
InitialLoadWanted == env.loadInitial /\ status = "idle" /\ q = <<>>

\* A render whose status is not idle and whose q is the rendered one runs no
\* effect (the initial-load effect finds its condition false, the debounce
\* effect's dependencies are unchanged): such a render is part of the step
\* that caused it.
\* every effect of the last state change has run, and no continuation is queued
Flushed == mounted /\ rendered = << q, status >>
NoMicrotask == \A i \in DOMAIN requests : requests[i].pc # "microtask"
Ready == Flushed /\ NoMicrotask

\* a user action is taken between turns of the event loop
UserAction ==
    /\ Ready
    /\ userActions < MaxUserActions
    /\ userActions' = userActions + 1

\* first render: the initial-load effect, then the debounce effect
Mount ==
    /\ ~mounted
    /\ IF InitialLoadWanted THEN ExecuteSearch(<<>>, "mount") ELSE NoExecuteSearch
    /\ debounceTimeoutRef' = [left |-> DebounceTicks, query |-> q, origin |-> "mount"]
    /\ mounted' = TRUE
    /\ rendered' = << q, status' >>
    /\ UNCHANGED paginationVars
    /\ UNCHANGED << env, q, data, sinceSetQ, afterClear, userActions >>

\* a re-render after q or status changed: the effects whose dependencies changed
Render ==
    /\ mounted
    /\ rendered # << q, status >>
    /\ IF InitialLoadWanted
       THEN ExecuteSearch(<<>>, IF rendered[1] # q /\ rendered[2] = status
                                THEN "setQ-effect" ELSE "effect")
       ELSE NoExecuteSearch
    /\ debounceTimeoutRef' =
          IF rendered[1] # q
          THEN [left |-> DebounceTicks, query |-> q, origin |-> "setQ"]
          ELSE debounceTimeoutRef
    /\ rendered' = << q, status' >>
    /\ UNCHANGED paginationVars
    /\ UNCHANGED << env, q, data, mounted, sinceSetQ, afterClear, userActions >>

\* setQ(v) with a new value
SetQ(v) ==
    /\ UserAction
    /\ v # q
    /\ q' = v
    /\ sinceSetQ' = 0
    /\ burstExec' = IF sinceSetQ >= DebounceTicks THEN 0 ELSE burstExec
    /\ afterClear' = FALSE
    /\ UNCHANGED paginationVars
    /\ UNCHANGED << env, data, status, error, inFlightController, debounceTimeoutRef,
                    requests, mounted, rendered >>

\* search(v)
Search(v) ==
    /\ UserAction
    /\ ExecuteSearch(v, "search")
    /\ debounceTimeoutRef' = ClearDebounceTimeout(debounceTimeoutRef)
    /\ afterClear' = FALSE
    /\ rendered' = << q, status' >>
    /\ UNCHANGED paginationVars
    /\ UNCHANGED << env, q, data, mounted, sinceSetQ >>

\* the body of reset()
ResetBody ==
    /\ debounceTimeoutRef' = ClearDebounceTimeout(debounceTimeoutRef)
    /\ requests' = AbortInFlightRequest(requests, inFlightController)
    /\ inFlightController' = 0
    /\ data' = NoData
    /\ status' = "idle"
    /\ error' = ""

\* a reset that also empties the held query
ResetClearsQuery ==
    /\ UserAction
    /\ ResetBody
    /\ q' = << >>
    /\ afterClear' = FALSE
    /\ UNCHANGED paginationVars
    /\ UNCHANGED << env, mounted, rendered, sinceSetQ, burstExec >>

\* reset()
Reset ==
    /\ UserAction
    /\ ResetBody
    /\ afterClear' = FALSE
    /\ UNCHANGED paginationVars
    /\ UNCHANGED << env, q, mounted, rendered, sinceSetQ, burstExec >>

\* the search bar's clear button (handleClear): onChange('') then onClear()
HandleClear ==
    /\ UserAction
    /\ q # <<>>
    /\ q' = <<>>
    /\ ResetBody
    /\ sinceSetQ' = 0
    /\ burstExec' = IF sinceSetQ >= DebounceTicks THEN 0 ELSE burstExec
    /\ afterClear' = TRUE
    /\ UNCHANGED paginationVars
    /\ UNCHANGED << env, mounted, rendered >>

\* the page's retry button (handleRetry), offered by the error state
HandleRetry ==
    /\ UserAction
    /\ status = "error"
    /\ IF Trim(q) # <<>>
       THEN /\ ExecuteSearch(q, "search")
            /\ debounceTimeoutRef' = ClearDebounceTimeout(debounceTimeoutRef)
       ELSE /\ NoExecuteSearch
            /\ UNCHANGED debounceTimeoutRef
    /\ afterClear' = FALSE
    /\ rendered' = << q, status' >>
    /\ UNCHANGED paginationVars
    /\ UNCHANGED << env, q, data, mounted, sinceSetQ >>

\* ------------------------------------------------------------------ timers and the network
Min(a, b) == IF a < b THEN a ELSE b

CountDown(n) == IF n > 0 THEN n - 1 ELSE n

\* One tick of time passes: no timer is overdue, and no fetch whose signal is
\* aborted is still unsettled (an aborted fetch settles before time advances).
Tick ==
    /\ Ready
    /\ debounceTimeoutRef.left # 0
    /\ \A i \in DOMAIN requests : requests[i].timer # 0
    /\ \A i \in DOMAIN requests :
          AwaitsFetch(requests[i]) => ~CombinedSignalAborted(requests[i])
    /\ debounceTimeoutRef' =
          [debounceTimeoutRef EXCEPT !.left = CountDown(debounceTimeoutRef.left)]
    /\ requests' = [i \in DOMAIN requests |->
                      [requests[i] EXCEPT !.timer = CountDown(requests[i].timer)]]
    /\ sinceSetQ' = Min(sinceSetQ + 1, DebounceTicks)
    /\ UNCHANGED paginationVars
    /\ UNCHANGED << env, q, data, status, error, inFlightController, mounted,
                    rendered, burstExec, afterClear, userActions >>

\* the debounce timer fires: executeSearch(q) with the q of the render that set it
DebounceFire ==
    /\ Ready
    /\ debounceTimeoutRef.left = 0
    /\ ExecuteSearch(debounceTimeoutRef.query,
                     IF debounceTimeoutRef.origin = "setQ" THEN "debounce" ELSE "debounce-mount")
    /\ debounceTimeoutRef' = NoTimer
    /\ rendered' = << q, status' >>
    /\ UNCHANGED paginationVars
    /\ UNCHANGED << env, q, data, mounted, sinceSetQ, afterClear, userActions >>

\* the API client's timeout of request i fires
TimeoutFire(i) ==
    /\ Ready
    /\ requests[i].timer = 0
    /\ requests' = [requests EXCEPT ![i] = ApiOnTimeout(requests[i])]
    /\ UNCHANGED hookVars
    /\ UNCHANGED paginationVars
    /\ UNCHANGED env

\* the pending fetch of request i resolves or rejects with ev; when that
\* settles the API call, executeSearch resumes in the same turn
FetchResolve(i, ev) ==
    /\ Ready
    /\ AwaitsFetch(requests[i])
    /\ FetchCan(requests[i], ev)
    /\ LET r == ApiOnFetch(env, requests[i], ev)
       IN  /\ requests' = [requests EXCEPT ![i] = Resumed(r)]
           /\ IF r.pc = "done"
              THEN ExecuteSearchResume(r)
              ELSE UNCHANGED << data, status, error >>
    /\ rendered' = << q, status' >>
    /\ UNCHANGED paginationVars
    /\ UNCHANGED << env, q, inFlightController, debounceTimeoutRef, mounted,
                    sinceSetQ, burstExec, afterClear, userActions >>

\* an API call that settled without the network resumes executeSearch
Microtask(i) ==
    /\ Flushed
    /\ requests[i].pc = "microtask"
    /\ LET r == [requests[i] EXCEPT !.pc = "done", !.settledAborted = requests[i].aborted]
       IN  /\ requests' = [requests EXCEPT ![i] = Resumed(r)]
           /\ ExecuteSearchResume(r)
    /\ rendered' = << q, status' >>
    /\ UNCHANGED paginationVars
    /\ UNCHANGED << env, q, inFlightController, debounceTimeoutRef, mounted,
                    sinceSetQ, burstExec, afterClear, userActions >>

\* ------------------------------------------------------------------ specification
\* the state of usePagination(initialItemsPerPage, initialTotalItems) at its
\* first render
UsePagination(initialItemsPerPage, initialTotalItems) ==
    /\ currentPage = 1
    /\ itemsPerPage = initialItemsPerPage
    /\ totalItems = initialTotalItems
    /\ closure = [currentPage |-> 1, itemsPerPage |-> initialItemsPerPage,
                  totalItems |-> initialTotalItems]
    /\ callsInRender = 0

Envs == [baseUrl : BOOLEAN, dev : BOOLEAN, loadInitial : BOOLEAN]

\* useSearch and the API client before the first render
InitSearch ==
    /\ env \in Envs
    /\ q = <<>>
    /\ data = NoData
    /\ status = "idle"
    /\ error = ""
    /\ inFlightController = 0
    /\ debounceTimeoutRef = NoTimer
    /\ requests = <<>>
    /\ mounted = FALSE
    /\ rendered = << <<>>, "idle" >>
    /\ sinceSetQ = DebounceTicks
    /\ burstExec = 0
    /\ afterClear = FALSE
    /\ userActions = 0

\* usePagination is used by no component; it starts with its defaults (an
\* initialItemsPerPage of 20, scaled down, and no items)
Init ==
    /\ InitSearch
    /\ UsePagination(MaxItemsPerPage, 0)

Next ==
    \/ Mount
    \/ Render
    \/ \E v \in Queries : SetQ(v)
    \/ \E v \in Queries : Search(v)
    \/ Reset
    \/ HandleClear
    \/ HandleRetry
    \/ Tick
    \/ DebounceFire
    \/ \E i \in DOMAIN requests : TimeoutFire(i)
    \/ \E i \in DOMAIN requests, ev \in FetchEvents : FetchResolve(i, ev)
    \/ \E i \in DOMAIN requests : Microtask(i)

Spec == Init /\ [][Next]_vars

\* ------------------------------------------------------------------ the API client alone
\* The exported functions of the client, called by a caller other than the
\* hook, with or without an AbortSignal; the hook stays unmounted.
\* getAllProducts(signal?) or searchProducts(v, signal?)
ClientCall(api, v, hasSignal) ==
    /\ Len(requests) < MaxRequests
    /\ requests' = Append(requests,
                          IF api = "all"
                          THEN GetAllProductsCall(env, hasSignal)
                          ELSE SearchProductsCall(env, v, hasSignal))
    /\ UNCHANGED hookVars
    /\ UNCHANGED paginationVars
    /\ UNCHANGED env

\* the caller aborts the signal it gave to call i
CallerAbort(i) ==
    /\ requests[i].hasSignal
    /\ ~requests[i].aborted
    /\ requests[i].pc # "done"
    /\ requests' = [requests EXCEPT ![i].aborted = TRUE]
    /\ UNCHANGED hookVars
    /\ UNCHANGED paginationVars
    /\ UNCHANGED env

\* one tick of time passes for the client's timers
ClientTick ==
    /\ \E i \in DOMAIN requests : requests[i].timer > 0
    /\ \A i \in DOMAIN requests : requests[i].timer # 0
    /\ \A i \in DOMAIN requests :
          AwaitsFetch(requests[i]) => ~CombinedSignalAborted(requests[i])
    /\ requests' = [i \in DOMAIN requests |->
                      [requests[i] EXCEPT !.timer = CountDown(requests[i].timer)]]
    /\ UNCHANGED hookVars
    /\ UNCHANGED paginationVars
    /\ UNCHANGED env

\* the timeout of call i fires
ClientTimeoutFire(i) ==
    /\ requests[i].timer = 0
    /\ requests' = [requests EXCEPT ![i] = ApiOnTimeout(requests[i])]
    /\ UNCHANGED hookVars
    /\ UNCHANGED paginationVars
    /\ UNCHANGED env

\* the pending fetch of call i resolves or rejects with ev
ClientFetchResolve(i, ev) ==
    /\ AwaitsFetch(requests[i])
    /\ FetchCan(requests[i], ev)
    /\ requests' = [requests EXCEPT ![i] = ApiOnFetch(env, requests[i], ev)]
    /\ UNCHANGED hookVars
    /\ UNCHANGED paginationVars
    /\ UNCHANGED env

\* call i, which needed no fetch, returns to its caller
ClientReturn(i) ==
    /\ requests[i].pc = "microtask"
    /\ requests' = [requests EXCEPT ![i] = Settled(requests[i], requests[i].result)]
    /\ UNCHANGED hookVars
    /\ UNCHANGED paginationVars
    /\ UNCHANGED env

NextApi ==
    \/ \E api \in {"all", "search"}, v \in ClientQueries, hasSignal \in BOOLEAN :
          ClientCall(api, v, hasSignal)
    \/ \E i \in DOMAIN requests : CallerAbort(i)
    \/ ClientTick
    \/ \E i \in DOMAIN requests : ClientTimeoutFire(i)
    \/ \E i \in DOMAIN requests, ev \in FetchEvents : ClientFetchResolve(i, ev)
    \/ \E i \in DOMAIN requests : ClientReturn(i)

SpecApi == Init /\ [][NextApi]_vars

\* ------------------------------------------------------------------ palindrome enrichment
\* The bodies enrichment is applied to: every combination of prices, discount
\* and image, under both values of isPalindrome.
OriginalPrices == { 0, 4, 500 }

FinalPrices == { 0, 2, 4, 250, 500 }

Discounts == { << >>, << 30 >>, << 50 >> }

Items ==
    { Item(1, o, f, d, i) : o \in OriginalPrices, f \in FinalPrices,
                            d \in Discounts, i \in { << >>, BackendImage(1) } }

Bodies ==
    UNION { [isPalindrome : BOOLEAN, items : [1..n -> Items]] : n \in 1..MaxItems }

\* In SpecEnrich, requests holds the one body under processing as the fetch
\* delivered it, data the response after processing, and userActions the
\* number of times applyPalindromeProcessing has been applied.
InitEnrich ==
    /\ Init
    /\ env.baseUrl /\ ~env.dev /\ ~env.loadInitial

\* response.json() delivers a body
ReceiveBody ==
    /\ requests = << >>
    /\ \E body \in Bodies : requests' = << body >>
    /\ UNCHANGED hookVars
    /\ UNCHANGED paginationVars
    /\ UNCHANGED env

\* applyPalindromeProcessing on the body, or again on its own result
Enrich ==
    /\ requests # << >>
    /\ userActions < MaxUserActions
    /\ userActions' = userActions + 1
    /\ data' = ApplyPalindromeProcessing(IF data = NoData THEN requests[1] ELSE data)
    /\ UNCHANGED paginationVars
    /\ UNCHANGED << env, q, status, error, inFlightController, debounceTimeoutRef,
                    requests, mounted, rendered, sinceSetQ, burstExec, afterClear >>

NextEnrich ==
    \/ ReceiveBody
    \/ Enrich

SpecEnrich == InitEnrich /\ [][NextEnrich]_vars

\* ------------------------------------------------------------------ palindrome detection
\* the longest string handed to isPalindrome
MaxStringLength == 3

\* letters in both cases, a digit, a space and a punctuation mark
Characters == { "a", "b", "A", "0", " ", "-" }

Strings == UNION { [1..n -> Characters] : n \in 0..MaxStringLength }

\* isPalindrome(str) of the older copy of the client kept in the same file
IsPalindromeOlder(s) ==
    LET cleaned == SelectSeq([i \in DOMAIN s |-> ToLowerCase(s[i])], IsAlphanumeric)
    IN  cleaned = Reverse(cleaned)

\* In SpecPalindrome, q holds a string and requests the mock responses built
\* for it and for its reverse, each tagged with the copy that built it.
InitPalindrome ==
    /\ Init
    /\ ~env.baseUrl /\ env.dev /\ ~env.loadInitial

\* a string is chosen
ChooseString ==
    /\ q = << >>
    /\ requests = << >>
    /\ \E s \in Strings : q' = s
    /\ UNCHANGED paginationVars
    /\ UNCHANGED << env, data, status, error, inFlightController, debounceTimeoutRef,
                    requests, mounted, rendered, sinceSetQ, burstExec, afterClear,
                    userActions >>

Built(copy, query) ==
    \E i \in DOMAIN requests : requests[i].copy = copy /\ requests[i].query = query

\* generateMockResponse(query): no string of the model includes 'nothing' or
\* 'nonexistent', so items is MOCK_PRODUCTS
GenerateMockResponse(query) ==
    /\ ~Built("current", query)
    /\ requests' = Append(requests,
                          [copy |-> "current", query |-> query,
                           isPalindrome |-> IsPalindrome(query),
                           items |-> MOCK_PRODUCTS, totalItems |-> Len(MOCK_PRODUCTS)])
    /\ UNCHANGED hookVars
    /\ UNCHANGED paginationVars
    /\ UNCHANGED env

\* generateMockResponse(query) of the older copy
GenerateMockResponseOlder(query) ==
    /\ ~Built("older", query)
    /\ requests' = Append(requests,
                          [copy |-> "older", query |-> query,
                           isPalindrome |-> IsPalindromeOlder(query),
                           items |-> MOCK_PRODUCTS, totalItems |-> Len(MOCK_PRODUCTS)])
    /\ UNCHANGED hookVars
    /\ UNCHANGED paginationVars
    /\ UNCHANGED env

NextPalindrome ==
    \/ ChooseString
    \/ \E s \in { q, Reverse(q) } : GenerateMockResponse(s)
    \/ \E s \in { q, Reverse(q) } : GenerateMockResponseOlder(s)

SpecPalindrome == InitPalindrome /\ [][NextPalindrome]_vars

\* ------------------------------------------------------------------ request URL
\* Encoded text is a sequence of characters too: " " encodes as "%", "2", "0".
\* a letter, and characters that encodeURIComponent escapes
UrlCharacters == { "a", " ", "&", "%", "+" }

UrlStrings == UNION { [1..n -> UrlCharacters] : n \in 0..MaxStringLength }

\* the percent-encoding of one character
PercentEncoded(c) ==
    CASE c = " " -> << "%", "2", "0" >>
      [] c = "%" -> << "%", "2", "5" >>
      [] c = "&" -> << "%", "2", "6" >>
      [] c = "+" -> << "%", "2", "B" >>
      [] OTHER   -> << c >>

RECURSIVE EncodeURIComponent(_)
\* encodeURIComponent(str): letters and digits stay, the rest of the model's
\* characters are percent-encoded
EncodeURIComponent(str) ==
    IF str = << >> THEN << >>
    ELSE PercentEncoded(Head(str)) \o EncodeURIComponent(Tail(str))

RECURSIVE SearchParamsSerialize(_)
\* the application/x-www-form-urlencoded serializer of URLSearchParams, which
\* url.toString() applies to the value set: a space becomes "+", the other
\* characters outside letters, digits and *-._ are percent-encoded
SearchParamsSerialize(value) ==
    IF value = << >> THEN << >>
    ELSE (IF Head(value) = " " THEN << "+" >> ELSE PercentEncoded(Head(value)))
         \o SearchParamsSerialize(Tail(value))

\* the value handed to url.searchParams.set('q', ...)
SearchParamValue(query) == EncodeURIComponent(Trim(query))

\* the q parameter of url.toString() in searchProducts
SearchUrlQ(query) == SearchParamsSerialize(SearchParamValue(query))

\* In SpecUrl, q holds the query handed to searchProducts and requests the
\* q parameter of the URL of its fetch.
InitUrl ==
    /\ Init
    /\ env.baseUrl /\ ~env.dev /\ ~env.loadInitial

\* searchProducts is handed a query
ChooseQuery ==
    /\ q = << >>
    /\ requests = << >>
    /\ \E s \in UrlStrings : q' = s
    /\ UNCHANGED paginationVars
    /\ UNCHANGED << env, data, status, error, inFlightController, debounceTimeoutRef,
                    requests, mounted, rendered, sinceSetQ, burstExec, afterClear,
                    userActions >>

\* searchProducts builds the URL of its fetch (a query that is empty once
\* trimmed goes to getAllProducts instead)
BuildSearchUrl ==
    /\ Trim(q) # << >>
    /\ requests = << >>
    /\ requests' = << [q |-> SearchUrlQ(q)] >>
    /\ UNCHANGED hookVars
    /\ UNCHANGED paginationVars
    /\ UNCHANGED env

NextUrl ==
    \/ ChooseQuery
    \/ BuildSearchUrl

SpecUrl == InitUrl /\ [][NextUrl]_vars

\* ------------------------------------------------------------------ usePagination
Max(a, b) == IF a > b THEN a ELSE b

\* Math.ceil(a / b) for a >= 0 and b >= 1
Ceil(a, b) == (a + b - 1) \div b

\* Math.max(1, Math.ceil(totalItems / itemsPerPage))
TotalPages(items, perPage) == Max(1, Ceil(items, perPage))

\* calculations.totalPages of the last render
ClosureTotalPages == TotalPages(closure.totalItems, closure.itemsPerPage)

\* validPage of the last render
ClosureValidPage == Min(closure.currentPage, ClosureTotalPages)

\* calculations.hasNext of the last render
HasNext == ClosureValidPage < ClosureTotalPages

\* calculations.hasPrevious of the last render
HasPrevious == ClosureValidPage > 1

\* an operation of the hook is called from an event handler
PaginationCall ==
    /\ callsInRender < MaxCallsPerRender
    /\ callsInRender' = callsInRender + 1
    /\ UNCHANGED closure
    /\ UNCHANGED searchVars

\* goToPage(page)
GoToPage(page) ==
    /\ PaginationCall
    /\ currentPage' = Max(1, Min(page, ClosureTotalPages))
    /\ UNCHANGED << itemsPerPage, totalItems >>

\* nextPage(): setCurrentPage(prev => prev + 1) when the render had a next page
NextPage ==
    /\ PaginationCall
    /\ currentPage' = IF HasNext THEN currentPage + 1 ELSE currentPage
    /\ UNCHANGED << itemsPerPage, totalItems >>

\* previousPage()
PreviousPage ==
    /\ PaginationCall
    /\ currentPage' = IF HasPrevious THEN currentPage - 1 ELSE currentPage
    /\ UNCHANGED << itemsPerPage, totalItems >>

\* firstPage()
FirstPage ==
    /\ PaginationCall
    /\ currentPage' = 1
    /\ UNCHANGED << itemsPerPage, totalItems >>

\* lastPage()
LastPage ==
    /\ PaginationCall
    /\ currentPage' = ClosureTotalPages
    /\ UNCHANGED << itemsPerPage, totalItems >>

\* reset(newTotalItems); newTotalItems is << >> when undefined, << n >> otherwise
PaginationReset(newTotalItems) ==
    /\ PaginationCall
    /\ currentPage' = 1
    /\ totalItems' = IF newTotalItems # << >> THEN newTotalItems[1] ELSE totalItems
    /\ UNCHANGED itemsPerPage

\* setItemsPerPage(newItemsPerPage)
SetItemsPerPage(newItemsPerPage) ==
    /\ PaginationCall
    /\ LET firstItemIndex == (closure.currentPage - 1) * closure.itemsPerPage
       IN  currentPage' = (firstItemIndex \div newItemsPerPage) + 1
    /\ itemsPerPage' = newItemsPerPage
    /\ UNCHANGED totalItems

\* setTotalItems(newTotalItems)
SetTotalItems(newTotalItems) ==
    /\ PaginationCall
    /\ totalItems' = newTotalItems
    /\ LET newTotalPages == TotalPages(newTotalItems, closure.itemsPerPage)
       IN  currentPage' = IF closure.currentPage > newTotalPages
                          THEN newTotalPages ELSE currentPage
    /\ UNCHANGED itemsPerPage

\* the re-render after the calls of a handler: the state becomes what the
\* callbacks read
PaginationRender ==
    /\ callsInRender > 0
    /\ closure' = [currentPage |-> currentPage, itemsPerPage |-> itemsPerPage,
                   totalItems |-> totalItems]
    /\ callsInRender' = 0
    /\ UNCHANGED << currentPage, itemsPerPage, totalItems >>
    /\ UNCHANGED searchVars

InitPagination ==
    /\ InitSearch
    /\ ~env.baseUrl /\ ~env.dev /\ ~env.loadInitial
    /\ \E initialItemsPerPage \in 1..MaxItemsPerPage,
          initialTotalItems \in 0..MaxTotalItems :
          UsePagination(initialItemsPerPage, initialTotalItems)

NextPagination ==
    \/ \E page \in 0..(MaxTotalItems + 1) : GoToPage(page)
    \/ NextPage
    \/ PreviousPage
    \/ FirstPage
    \/ LastPage
    \/ \E n \in 0..MaxTotalItems : PaginationReset(<< n >>)
    \/ PaginationReset(<< >>)
    \/ \E n \in 1..MaxItemsPerPage : SetItemsPerPage(n)
    \/ \E n \in 0..MaxTotalItems : SetTotalItems(n)
    \/ PaginationRender

SpecPagination == InitPagination /\ [][NextPagination]_vars

\* ------------------------------------------------------------------ properties
\* the request the hook's controller ref points at
Current == requests[inFlightController]

\* C1: when a request was issued while an earlier one was still in flight, the
\* view is the one the later request's outcome produces, however and whenever
\* the earlier one settles: success with its response, error with the message
\* of its failure, and loading with no error while it has produced nothing.
C1_LatestRequestDecidesView ==
    inFlightController > 1 =>
        IF Current.pc = "done" /\ Current.result.kind # "err"
        THEN status = "success" /\ data = Current.result /\ error = ""
        ELSE IF Current.pc = "done" /\ ~ExecuteSearchCatch(Current.result).swallow
             THEN /\ status = "error"
                  /\ error = ExecuteSearchCatch(Current.result).message
                  /\ data = NoData
             ELSE status = "loading" /\ error = ""

\* the superseded request resolved, the later one failed, the view shows the failure
C1_Witness ==
    /\ inFlightController > 1
    /\ Current.pc = "done"
    /\ Current.result.kind = "err"
    /\ status = "error"
    /\ \E j \in 1..(inFlightController - 1) :
          /\ requests[j].settledAborted
          /\ requests[j].result.kind = "ok"

\* C2: the step in which a cancelled request resolves or fails leaves status,
\* data and error as they were.
C2_CancelledRequestChangesNothing ==
    [][\A i \in DOMAIN requests :
          ( /\ i \in DOMAIN requests'
            /\ requests[i].aborted
            /\ requests[i].pc # "done"
            /\ requests'[i].pc = "done" )
          => UNCHANGED << status, data, error >>]_vars

\* a request aborted by reset() has failed and the view is still idle
C2_Witness ==
    /\ status = "idle"
    /\ inFlightController = 0
    /\ \E i \in DOMAIN requests :
          /\ requests[i].settledAborted
          /\ requests[i].result.kind = "err"

\* C3: at most one request of the hook has a controller that is not aborted,
\* and it is the one the controller ref holds.
C3_AtMostOneLiveRequest ==
    \A i \in DOMAIN requests : ~requests[i].aborted => i = inFlightController

\* two requests await the network, the earlier aborted and the later live
C3_Witness ==
    \E i, j \in DOMAIN requests :
        /\ i < j
        /\ AwaitsFetch(requests[i]) /\ requests[i].aborted
        /\ AwaitsFetch(requests[j]) /\ ~requests[j].aborted

\* C4: the setQ calls of one burst (each less than debounceMs after the one
\* before) start at most one executeSearch, and it is for the last value set.
C4_OneSearchPerBurst ==
    [][burstExec' = burstExec + 1 =>
          /\ burstExec' <= 1
          /\ requests'[Len(requests')] = HookCall(q)]_vars

\* C5: a request that is a consequence of setQ starts only when debounceMs
\* have passed since the last setQ.
C5_NoSearchBeforeDebounce ==
    [][burstExec' = burstExec + 1 => sinceSetQ >= DebounceTicks]_vars

\* C6: a failed request the hook has not cancelled leaves status error, a
\* message and no data.
C6_FailureShowsError ==
    \A i \in DOMAIN requests :
        ( /\ requests[i].pc = "done"
          /\ ~requests[i].aborted
          /\ requests[i].result.kind = "err" )
        => status = "error" /\ error # "" /\ data = NoData

\* C7: once the client's timeout of a request has expired, the fetch the
\* request awaits has been aborted, also with a caller's signal.
C7_TimeoutAbortsFetch ==
    \A i \in DOMAIN requests :
        (AwaitsFetch(requests[i]) /\ requests[i].timedOut)
        => CombinedSignalAborted(requests[i])

\* C8: a call of the client fails as Request Cancelled only when its caller's
\* signal was aborted, and a call whose fetch the client's own timeout aborted
\* fails, when it fails without an HTTP status, as Request Timeout.
C8_AbortClassifiedByCause ==
    \A i \in DOMAIN requests :
        (requests[i].pc = "done" /\ requests[i].result.kind = "err")
        => /\ requests[i].result.error = "Request Cancelled"
                 => requests[i].settledAborted
           /\ ( /\ ~requests[i].hasSignal
                /\ requests[i].timedOut
                /\ requests[i].result.statusCode = 0 )
                 => requests[i].result.error = "Request Timeout"

\* the state reset() leaves
ResetDone ==
    /\ debounceTimeoutRef = NoTimer
    /\ inFlightController = 0
    /\ \A i \in DOMAIN requests : requests[i].aborted
    /\ data = NoData
    /\ error = ""
    /\ status = "idle"

\* C9: reset(), alone or from the clear button, leaves the in-flight request
\* aborted, no debounce timer, no data, no error and status idle.
C9_ResetClearsEverything ==
    [][(Reset \/ HandleClear) => ResetDone']_vars

\* reset() has just aborted a request that awaits the network, from a view
\* that was not idle
C9_Witness ==
    /\ ResetDone
    /\ rendered[2] # "idle"
    /\ \E i \in DOMAIN requests : AwaitsFetch(requests[i])

\* C10: from the clear button to the next user action the view is idle and
\* the hook has no live request.
C10_ClearStaysIdle ==
    afterClear => /\ status = "idle"
                  /\ \A i \in DOMAIN requests : requests[i].aborted

\* C11: status changes only along the documented transitions: to loading in a
\* step that issues a request, from loading to success when the current
\* request resolves, from loading to error when the current request fails, and
\* to idle in a reset step.
C11_StatusTransitions ==
    [][status' # status =>
          CASE status' = "loading" ->
                  /\ inFlightController' = Len(requests')
                  /\ inFlightController' # 0
                  /\ ~requests'[inFlightController'].aborted
                  /\ requests'[inFlightController'].pc # "done"
            [] status' = "success" ->
                  /\ status = "loading"
                  /\ inFlightController # 0
                  /\ Current.pc # "done" /\ ~Current.aborted
                  /\ requests'[inFlightController].pc = "done"
                  /\ requests'[inFlightController].result.kind # "err"
            [] status' = "error" ->
                  /\ status = "loading"
                  /\ inFlightController # 0
                  /\ Current.pc # "done" /\ ~Current.aborted
                  /\ requests'[inFlightController].pc = "done"
                  /\ requests'[inFlightController].result.kind = "err"
            [] OTHER -> Reset \/ HandleClear]_vars

\* a search succeeded, then reset() took the view back to idle
C11_Witness ==
    /\ status = "idle"
    /\ rendered[2] = "success"
    /\ \E i \in DOMAIN requests :
          /\ requests[i].pc = "done"
          /\ ~requests[i].settledAborted
          /\ requests[i].result.kind = "ok"

\* C12: a fetch of searchProducts never carries a query longer than the
\* limit; a query whose trimmed length exceeds the limit is rejected as a 400
\* Bad Request without a fetch; a query whose trimmed length is between 1 and
\* the limit is not rejected as a Bad Request.
C12_QueryLengthBound ==
    \A i \in DOMAIN requests :
        requests[i].api = "search" =>
            /\ AwaitsFetch(requests[i])
                  => Len(Trim(requests[i].query)) <= MaxQueryLength
            /\ Len(Trim(requests[i].query)) > MaxQueryLength
                  => requests[i].result = BadRequest
            /\ Len(Trim(requests[i].query)) \in 1..MaxQueryLength
                  => requests[i].result # BadRequest

\* the error searchProducts throws for a network-layer failure
NetworkError == ApiClientError("Network error - unable to connect to API", 0, "Network Error")

\* C13: when the fetch of a search the hook has not cancelled fails at the
\* network layer, the call fails with a Network Error and the hook shows
\* status error with the connection message.
C13_NetworkFailureShowsError ==
    [][\A i \in DOMAIN requests :
          ( /\ requests[i].pc = "search"
            /\ ~requests[i].aborted
            /\ FetchResolve(i, "neterr") )
          => /\ requests'[i].result = NetworkError
             /\ status' = "error"
             /\ error' = ExecuteSearchCatch(NetworkError).message
             /\ data' = NoData]_vars

\* C14: the retry action, taken in the error state, issues a request for the
\* query of the failed search and status becomes loading.
C14_RetryReissues ==
    [][HandleRetry =>
          /\ status' = "loading"
          /\ inFlightController' = Len(requests')
          /\ requests'[inFlightController'].pc # "done"
          /\ ~requests'[inFlightController'].aborted
          /\ requests'[inFlightController'].api = Current.api
          /\ requests'[inFlightController'].query = Current.query]_vars

\* C15: a call of the client returns a response built from MOCK_PRODUCTS only
\* when no base URL is configured and the environment is development.
C15_FixtureOnlyOffline ==
    \A i \in DOMAIN requests :
        (requests[i].result.kind = "ok" /\ requests[i].result.fixture)
        => (~env.baseUrl /\ env.dev)

\* the body under processing, in SpecEnrich
Raw == requests[1]

\* C16: for a palindrome response an item without a discount (no
\* discountPercentage and a finalPrice not below its originalPrice) leaves
\* enrichment with half its originalPrice and discountPercentage 50; for a
\* response that is no palindrome every price and discount is unchanged.
C16_EnrichmentAppliesHalf ==
    data # NoData =>
        \A k \in DOMAIN Raw.items :
            /\ ( /\ Raw.isPalindrome
                 /\ Raw.items[k].discountPercentage = << >>
                 /\ Raw.items[k].finalPrice >= Raw.items[k].originalPrice )
               => /\ 2 * data.items[k].finalPrice = Raw.items[k].originalPrice
                  /\ data.items[k].discountPercentage = << 50 >>
            /\ ~Raw.isPalindrome
               => /\ data.items[k].finalPrice = Raw.items[k].finalPrice
                  /\ data.items[k].originalPrice = Raw.items[k].originalPrice
                  /\ data.items[k].discountPercentage = Raw.items[k].discountPercentage

\* originalPrice 500, finalPrice 500 has become finalPrice 250, discountPercentage 50
C16_Witness ==
    /\ requests # << >>
    /\ data # NoData
    /\ Raw.isPalindrome
    /\ \E k \in DOMAIN Raw.items :
          /\ Raw.items[k].originalPrice = 500
          /\ Raw.items[k].finalPrice = 500
          /\ Raw.items[k].discountPercentage = << >>
          /\ data.items[k].finalPrice = 250
          /\ data.items[k].discountPercentage = << 50 >>

\* C17: however many times enrichment has been applied, each item has the
\* finalPrice and discountPercentage one application gives it.
C17_EnrichmentIdempotent ==
    data # NoData =>
        \A k \in DOMAIN Raw.items :
            /\ data.items[k].finalPrice =
                  ApplyPalindromeProcessing(Raw).items[k].finalPrice
            /\ data.items[k].discountPercentage =
                  ApplyPalindromeProcessing(Raw).items[k].discountPercentage

\* enrichment was applied twice to a palindrome response with an item of
\* originalPrice 0, and to one whose first result still counts as undiscounted
C17_Witness ==
    /\ requests # << >>
    /\ userActions >= 2
    /\ Raw.isPalindrome
    /\ \E k \in DOMAIN Raw.items :
          /\ Raw.items[k].originalPrice = 0
          /\ ~HasDiscount(data.items[k])
          /\ data.items[k].discountPercentage = << 50 >>

\* C18: for a palindrome response an item that carries a discount (a
\* discountPercentage, or a finalPrice below its originalPrice) keeps its
\* finalPrice and discountPercentage.
C18_DiscountedItemUntouched ==
    (data # NoData /\ Raw.isPalindrome) =>
        \A k \in DOMAIN Raw.items :
            ( \/ Raw.items[k].discountPercentage # << >>
              \/ Raw.items[k].finalPrice < Raw.items[k].originalPrice )
            => /\ data.items[k].finalPrice = Raw.items[k].finalPrice
               /\ data.items[k].discountPercentage = Raw.items[k].discountPercentage

\* C19: every item of every response the client returns has an imageUrl, and
\* an item the backend sent without one has the placeholder of its id.
C19_EveryItemHasImage ==
    \A i \in DOMAIN requests :
        (requests[i].pc = "done" /\ requests[i].result.kind = "ok")
        => \A k \in DOMAIN requests[i].result.items :
              /\ requests[i].result.items[k].imageUrl # << >>
              /\ ~requests[i].result.fixture
                 => requests[i].result.items[k].imageUrl
                       = Placeholder(requests[i].result.items[k].id)

\* C20: every response the client returns from a 2xx body of the backend has
\* passed isValidSearchResponse, and a body that does not have the shape of a
\* SearchResponse is never returned.
C20_ReturnedBodyValidated ==
    \A i \in DOMAIN requests :
        ( /\ requests[i].pc = "done"
          /\ requests[i].result.kind = "ok"
          /\ ~requests[i].result.fixture )
        => requests[i].result.validated /\ requests[i].result.wellFormed

\* C21: when a request the hook has not cancelled fails with an HTTP status,
\* the message shown is chosen by the kind of the status: the invalid-parameter
\* message for 400, the not-found message for 404, and the internal-server-error
\* message for every 5xx status.
C21_MessageByStatusKind ==
    [][\A i \in DOMAIN requests, ev \in HttpErrors :
          ( /\ FetchResolve(i, ev)
            /\ ~requests[i].aborted
            /\ requests'[i].pc = "done" )
          => /\ status' = "error"
             /\ error' = CASE HttpStatus(ev) = 400 -> "Parametro de busqueda invalido."
                           [] HttpStatus(ev) = 404 -> "Servicio no encontrado."
                           [] HttpStatus(ev) \in 500..599 -> "Error interno del servidor."]_vars

\* C22: isPalindrome(s) holds exactly when s, lower-cased and stripped of the
\* characters outside [a-z0-9], reads the same from both ends; isPalindrome
\* gives s and the reverse of s the same answer; the empty string is a
\* palindrome; the two copies of the predicate agree.
C22_PalindromeSymmetric ==
    \A i \in DOMAIN requests :
        LET c == Cleaned(requests[i].query)
        IN  /\ requests[i].isPalindrome
                  <=> \A k \in 1..Len(c) : c[k] = c[Len(c) + 1 - k]
            /\ requests[i].query = << >> => requests[i].isPalindrome
            /\ \A j \in DOMAIN requests :
                  ( \/ requests[j].query = requests[i].query
                    \/ requests[j].query = Reverse(requests[i].query) )
                  => requests[j].isPalindrome = requests[i].isPalindrome

\* "A-a" and its reverse "a-A" went through both copies: each answer is that
\* it is a palindrome, though the string as typed differs from its reverse
C22_Witness ==
    /\ q = << "A", "-", "a" >>
    /\ Len(requests) = 4
    /\ \A i \in DOMAIN requests : requests[i].isPalindrome

\* C23: a search result built from the fixture list for a query that is no
\* palindrome has, in every item, finalPrice equal to originalPrice and no
\* discountPercentage.
C23_FixtureCutOnlyForPalindrome ==
    \A i \in DOMAIN requests :
        ( /\ requests[i].pc = "done"
          /\ requests[i].api = "search"
          /\ requests[i].result.kind = "ok"
          /\ requests[i].result.fixture
          /\ ~IsPalindrome(requests[i].query) )
        => \A k \in DOMAIN requests[i].result.items :
              /\ requests[i].result.items[k].finalPrice
                    = requests[i].result.items[k].originalPrice
              /\ requests[i].result.items[k].discountPercentage = << >>

\* the value one hexadecimal escape stands for
PercentDecoded(h, l) ==
    CASE << h, l >> = << "2", "0" >> -> " "
      [] << h, l >> = << "2", "5" >> -> "%"
      [] << h, l >> = << "2", "6" >> -> "&"
      [] << h, l >> = << "2", "B" >> -> "+"
      [] OTHER -> "?"

RECURSIVE DecodeOnce(_)
\* one decoding of a query-string value, as the receiver of the request
\* does: "+" is a space, and each escape is the character it stands for
DecodeOnce(value) ==
    IF value = << >> THEN << >>
    ELSE IF Head(value) = "+" THEN << " " >> \o DecodeOnce(Tail(value))
    ELSE IF Head(value) = "%" /\ Len(value) >= 3
         THEN << PercentDecoded(value[2], value[3]) >>
              \o DecodeOnce(SubSeq(value, 4, Len(value)))
         ELSE << Head(value) >> \o DecodeOnce(Tail(value))

\* C24: the q parameter of the URL searchProducts builds, decoded once, is
\* the trimmed query.
C24_QueryEncodedOnce ==
    \A i \in DOMAIN requests : DecodeOnce(requests[i].q) = Trim(q)

\* C25: with loadInitial = false, as long as the user has done nothing the
\* status is idle and the hook has made no API call.
C25_NoRequestOnMount ==
    (~env.loadInitial /\ userActions = 0) => (status = "idle" /\ requests = << >>)

\* C26: q changes only in a setQ step (the clear button calls setQ('')):
\* search, reset, the debounce timer and the settling of a request leave it as
\* it is, and a step that ends in status error keeps the typed query.
C26_OnlySetQChangesQuery ==
    [][/\ q' # q => ((\E v \in Queries : SetQ(v)) \/ HandleClear)
       /\ (status' = "error" /\ status # "error") => q' = q]_vars

\* the search for a typed query failed, reset() followed, and the query is
\* still held
C26_Witness ==
    /\ q = << "a" >>
    /\ status = "idle"
    /\ rendered[2] = "error"
    /\ inFlightController = 0

\* C27: the exposed fields agree with the status: success comes with data and
\* no error, error with a message and no data, idle with neither.
C27_FieldsMatchStatus ==
    /\ status = "success" => (data # NoData /\ error = "")
    /\ status = "error" => (error # "" /\ data = NoData)
    /\ status = "idle" => (data = NoData /\ error = "")

\* C28: mounted with loadInitial = true, and as long as the user has done
\* nothing, the hook issues a request only from the idle view with no request
\* made before, and the status becomes loading only from idle: one
\* all-products request and one loading phase.
C28_OneInitialLoad ==
    [][(env.loadInitial /\ userActions' = 0) =>
          /\ (\E cause \in {"mount", "effect", "setQ-effect", "debounce", "debounce-mount"} :
                  ExecuteSearch(<< >>, cause))
                => (status = "idle" /\ requests = << >>)
          /\ (status' = "loading" /\ status # "loading") => status = "idle"]_vars

C30_CurrentPageInBounds ==
    /\ closure.currentPage >= 1
    /\ closure.currentPage <= TotalPages(closure.totalItems, closure.itemsPerPage)

====
